---- MODULE Spec2Model ----
(***************************************************************************)
(* astchunk: NodeGroup (src/src/astchunk/node_group.py), a virtual node    *)
(* that wraps a list of sibling tree-sitter nodes, and the splitting       *)
(* algorithm of spec.md section 4.2 that consumes it.                      *)
(*                                                                         *)
(* Spec       the life of one NodeGroup object: the caller's list, the     *)
(*            constructor, every property read, and the later changes a    *)
(*            caller or a consumer can make to the list object.            *)
(* SpecText   the same object over every source buffer, empty nodes among *)
(*            its members, for the text it reconstructs.                   *)
(* SpecSplit  split(root, budget) over small trees, step by step.          *)
(***************************************************************************)
EXTENDS Integers, Sequences, FiniteSets, TLC

VARIABLES
    src,      \* the source buffer the nodes are views of (a sequence of bytes)
    heap,     \* list objects by address: heap[a] is the content of list a
    self,     \* the NodeGroup object (its _nodes field holds an address), or None
    built,    \* the content of the argument list at the time __init__ ran
    raised,   \* what the constructor call raised: "" (not called / no error)
    obs,      \* the last property read: [op, exc, val]
    edits,    \* how many times the list object was changed after __init__
    root,     \* split: the root of the tree
    budget,   \* split: the largest measured size of a window
    rule,     \* split: the grouping rule in use
    pc,       \* split: "start", "run" or "done"
    stack,    \* split: the calls in progress, innermost last: [node, items, i]
    cur,      \* split: the window being filled (a sequence of items)
    windows,  \* split: the windows emitted so far: [items, oversized]
    effective, \* split: the NodeGroups that appeared in an effective child sequence
    entered   \* split: the nodes split has recursed into

groupVars == <<src, heap, self, built, raised, obs, edits>>
splitVars == <<root, budget, rule, pc, stack, cur, windows, effective, entered>>
vars == <<groupVars, splitVars>>

----------------------------------------------------------------------------
(* Bounds *)

\* length of the source buffer (the longest source a tree is over)
SrcLen == 5
\* longest list a caller builds
MaxNodes == 3
\* changes to the list object that are followed after construction
MaxEdits == 1
\* most leaves of a tree given to split
MaxLeaves == 4
\* largest budget given to split
MaxBudget == 3

(* Program constants *)

\* b"\n", the separator of NodeGroup.text
Sep == 10

\* the bytes a source buffer is made of: the separator and a letter
Alphabet == {Sep, 97}

NodeTypes == {"decorator", "function_definition"}

\* the lengths of a childless node (0: an empty node, such as a token the
\* parser supplied as missing), the lengths of a node that is not empty,
\* and the lengths of the gap before a leaf of a tree
Widths == {0, 1, 2}
NonEmptyWidths == Widths \ {0}
Gaps == {0, 1}

----------------------------------------------------------------------------
(* tree_sitter.Node, as far as NodeGroup reads it *)

\* buf[s:e], Python slice of a bytes object
Slice(buf, s, e) == [i \in 1..(e - s) |-> buf[s + i]]

\* tree-sitter's (row, column) of byte offset pos in buf
Point(buf, pos) ==
    LET seps == {i \in 1..pos : buf[i] = Sep}
        last == IF seps = {} THEN 0 ELSE CHOOSE i \in seps : \A j \in seps : j <= i
    IN  <<Cardinality(seps), pos - last>>

\* a leaf node of the tree over buf: a view of buf[s:e] of type t
TsNode(buf, s, e, t) ==
    [start_byte  |-> s,
     end_byte    |-> e,
     start_point |-> Point(buf, s),
     end_point   |-> Point(buf, e),
     type        |-> t,
     text        |-> Slice(buf, s, e),
     children    |-> <<>>]

\* the nodes of buf that start at or after byte from, of the lengths and
\* types given
NodesFrom(buf, from, widths, types) ==
    {TsNode(buf, p[1], p[1] + p[2], t) :
        p \in {q \in (from..Len(buf)) \X widths : q[1] + q[2] <= Len(buf)},
        t \in types}

RECURSIVE ListsFrom(_, _, _, _, _)
\* the lists of at most k sibling nodes of buf, in source order, none
\* overlapping another, gaps allowed
ListsFrom(buf, from, k, widths, types) ==
    IF k = 0 THEN {<<>>}
    ELSE {<<>>} \cup
         UNION {{<<n>> \o rest :
                    rest \in ListsFrom(buf, n.end_byte, k - 1, widths, types)} :
                n \in NodesFrom(buf, from, widths, types)}

\* source buffers of letters with a separator closing every line of p bytes
LinedBuffers == {[i \in 1..SrcLen |-> IF i % p = 0 THEN Sep ELSE 97] : p \in 2..3}

\* every source buffer
AllBuffers == [1..SrcLen -> Alphabet]

----------------------------------------------------------------------------
(* Python values *)

None == [none |-> TRUE]

Return(v) == [exc |-> "", val |-> v]
Raise(e) == [exc |-> e, val |-> <<>>]

\* list[i] with Python's negative indices; IndexError out of range
PyGetItem(list, i) ==
    LET j == IF i < 0 THEN Len(list) + i ELSE i
    IN  IF 0 <= j /\ j < Len(list) THEN Return(list[j + 1]) ELSE Raise("IndexError")

\* x.f of the value an expression returned, or the exception it raised
Attr(r, f) == IF r.exc = "" THEN Return(r.val[f]) ELSE r

RECURSIVE Join(_, _)
\* sep.join(parts) for a sequence of byte strings
Join(sep, parts) ==
    IF parts = <<>> THEN <<>>
    ELSE IF Len(parts) = 1 THEN parts[1]
    ELSE parts[1] \o sep \o Join(sep, Tail(parts))

----------------------------------------------------------------------------
(* class NodeGroup.  An object is [_nodes |-> list]; the operators below    *)
(* take the object with its list resolved through the heap.                 *)

\* __init__: the assert, then self._nodes = nodes (the reference is kept,
\* no copy is made)
NodeGroup_init_mutant(nodes_content) ==
    IF Len(nodes_content) >= 0 THEN "" ELSE "AssertionError"
NodeGroup_init(nodes_content) ==
    IF Len(nodes_content) > 0 THEN "" ELSE "AssertionError"

start_byte_mutant(g) == Attr(PyGetItem(g._nodes, -1), "start_byte")
start_byte(g) == Attr(PyGetItem(g._nodes, 0), "start_byte")

end_byte_mutant(g) == Attr(PyGetItem(g._nodes, 0), "end_byte")
end_byte(g) == Attr(PyGetItem(g._nodes, -1), "end_byte")

start_point(g) == Attr(PyGetItem(g._nodes, 0), "start_point")

end_point(g) == Attr(PyGetItem(g._nodes, -1), "end_point")

children_mutant(g) == Return(Tail(g._nodes))
children(g) == Return(g._nodes)

type_mutant(g) == Attr(PyGetItem(g._nodes, 0), "type")
type(g) == Attr(PyGetItem(g._nodes, -1), "type")

text_mutant(g) == Return(Join(<<>>, [i \in 1..Len(g._nodes) |-> g._nodes[i].text]))
text(g) == Return(Join(<<Sep>>, [i \in 1..Len(g._nodes) |-> g._nodes[i].text]))

\* the object self with its _nodes reference followed
Deref == [_nodes |-> heap[self._nodes]]

----------------------------------------------------------------------------
(* The life of one NodeGroup *)

\* no split is in progress
SplitIdle ==
    /\ root = None
    /\ budget = 0
    /\ rule = "none"
    /\ pc = "idle"
    /\ stack = <<>>
    /\ cur = <<>>
    /\ windows = <<>>
    /\ effective = {}
    /\ entered = {}

Init ==
    /\ src \in LinedBuffers
    /\ heap \in [{"L1"} -> ListsFrom(src, 0, MaxNodes, NonEmptyWidths, NodeTypes)]
    /\ self = None
    /\ built = <<>>
    /\ raised = ""
    /\ obs = [op |-> "", exc |-> "", val |-> <<>>]
    /\ edits = 0
    /\ SplitIdle

\* g = NodeGroup(nodes), the caller passing its list L1
Construct ==
    /\ self = None
    /\ raised = ""
    /\ built' = heap["L1"]
    /\ raised' = NodeGroup_init(heap["L1"])
    /\ self' = IF raised' = "" THEN [_nodes |-> "L1"] ELSE None
    /\ UNCHANGED <<src, heap, obs, edits, splitVars>>

Observe(op, r) == obs' = [op |-> op, exc |-> r.exc, val |-> r.val]

ReadStartByte ==
    /\ self # None
    /\ Observe("start_byte", start_byte(Deref))
    /\ UNCHANGED <<src, heap, self, built, raised, edits, splitVars>>

ReadEndByte ==
    /\ self # None
    /\ Observe("end_byte", end_byte(Deref))
    /\ UNCHANGED <<src, heap, self, built, raised, edits, splitVars>>

ReadStartPoint ==
    /\ self # None
    /\ Observe("start_point", start_point(Deref))
    /\ UNCHANGED <<src, heap, self, built, raised, edits, splitVars>>

ReadEndPoint ==
    /\ self # None
    /\ Observe("end_point", end_point(Deref))
    /\ UNCHANGED <<src, heap, self, built, raised, edits, splitVars>>

ReadType ==
    /\ self # None
    /\ Observe("type", type(Deref))
    /\ UNCHANGED <<src, heap, self, built, raised, edits, splitVars>>

ReadText ==
    /\ self # None
    /\ Observe("text", text(Deref))
    /\ UNCHANGED <<src, heap, self, built, raised, edits, splitVars>>

\* .children hands out the list object itself, not a copy
ReadChildren ==
    /\ self # None
    /\ Observe("children", children(Deref))
    /\ UNCHANGED <<src, heap, self, built, raised, edits, splitVars>>

\* nodes.append(n), by the caller, after the group was built
CallerAppend ==
    /\ self # None
    /\ edits < MaxEdits
    /\ Len(heap["L1"]) < MaxNodes
    /\ \E n \in NodesFrom(src, IF heap["L1"] = <<>> THEN 0
                               ELSE heap["L1"][Len(heap["L1"])].end_byte,
                          NonEmptyWidths, NodeTypes) :
           heap' = [heap EXCEPT !["L1"] = Append(@, n)]
    /\ edits' = edits + 1
    /\ UNCHANGED <<src, self, built, raised, obs, splitVars>>

\* nodes.pop(), by the caller
CallerPop ==
    /\ self # None
    /\ edits < MaxEdits
    /\ heap["L1"] # <<>>
    /\ heap' = [heap EXCEPT !["L1"] = SubSeq(@, 1, Len(@) - 1)]
    /\ edits' = edits + 1
    /\ UNCHANGED <<src, self, built, raised, obs, splitVars>>

\* nodes.clear(), by the caller
CallerClear ==
    /\ self # None
    /\ edits < MaxEdits
    /\ heap["L1"] # <<>>
    /\ heap' = [heap EXCEPT !["L1"] = <<>>]
    /\ edits' = edits + 1
    /\ UNCHANGED <<src, self, built, raised, obs, splitVars>>

\* del kids[0], by a consumer, on the list .children returned
ConsumerDelFirst ==
    /\ self # None
    /\ edits < MaxEdits
    /\ obs.op = "children"
    /\ heap[self._nodes] # <<>>
    /\ heap' = [heap EXCEPT ![self._nodes] = Tail(@)]
    /\ edits' = edits + 1
    /\ UNCHANGED <<src, self, built, raised, obs, splitVars>>

Next ==
    \/ Construct
    \/ ReadStartByte
    \/ ReadEndByte
    \/ ReadStartPoint
    \/ ReadEndPoint
    \/ ReadType
    \/ ReadText
    \/ ReadChildren
    \/ CallerAppend
    \/ CallerPop
    \/ CallerClear
    \/ ConsumerDelFirst

Spec == Init /\ [][Next]_vars

(* Reading the text of a group over every source buffer, empty nodes        *)
(* among its members                                                        *)

InitText ==
    /\ src \in AllBuffers
    /\ heap \in [{"L1"} -> ListsFrom(src, 0, MaxNodes, Widths, {"decorator"})]
    /\ self = None
    /\ built = <<>>
    /\ raised = ""
    /\ obs = [op |-> "", exc |-> "", val |-> <<>>]
    /\ edits = 0
    /\ SplitIdle

NextText ==
    \/ Construct
    \/ ReadText
    \/ ReadStartByte
    \/ ReadEndByte

SpecText == InitText /\ [][NextText]_vars

----------------------------------------------------------------------------
(* split(node, budget) of spec.md 4.2, over trees of syntax nodes.  The     *)
(* measure is the byte length of a span, as in the spec's scenarios.        *)

\* SyntaxNode of spec.md 3: a span, a kind and ordered children
SyntaxNode(s, e, t, kids) ==
    [start_byte |-> s, end_byte |-> e, type |-> t, children |-> kids]

\* a leaf: the bytes between it and the sibling before it, its length, its type
LeafShapes == Gaps \X NonEmptyWidths \X NodeTypes

RECURSIVE Place(_, _)
\* the leaves of the shapes given, laid out in source order from byte pos
Place(shapes, pos) ==
    IF shapes = <<>> THEN <<>>
    ELSE LET s == pos + shapes[1][1]
             e == s + shapes[1][2]
         IN  <<SyntaxNode(s, e, shapes[1][3], <<>>)>> \o Place(Tail(shapes), e)

\* leaves i..j put under one function_definition node
Wrap(leaves, i, j) ==
    SubSeq(leaves, 1, i - 1)
    \o <<SyntaxNode(leaves[i].start_byte, leaves[j].end_byte, "function_definition",
                    SubSeq(leaves, i, j))>>
    \o SubSeq(leaves, j + 1, Len(leaves))

\* the root over the children given; it starts at byte 0
Module(kids) == SyntaxNode(0, kids[Len(kids)].end_byte, "module", kids)

\* the leaf layouts of n leaves that fit a source of SrcLen bytes
Layouts(n) ==
    {leaves \in {Place(shapes, 0) : shapes \in [1..n -> LeafShapes]} :
        leaves[n].end_byte <= SrcLen}

\* the trees split is run on, over a source of at most SrcLen bytes: a
\* childless root, or up to MaxLeaves leaves with at most one run of them
\* under an inner node
Trees ==
    {SyntaxNode(0, w, "module", <<>>) : w \in NonEmptyWidths} \cup
    UNION {UNION {{Module(leaves)} \cup
                  {Module(Wrap(leaves, b[1], b[2])) :
                      b \in {c \in (1..n) \X (1..n) : c[1] <= c[2]}} :
                  leaves \in Layouts(n)} :
           n \in 1..MaxLeaves}

\* the grouping rules: fuse nothing, or fuse decorators with their definition
Rules == {"none", "decorators"}

\* Chunkable of spec.md 4.1: span, kind and members of a node or a NodeGroup
IsGroup(x) == "_nodes" \in DOMAIN x
SpanStart(x) == IF IsGroup(x) THEN start_byte(x).val ELSE x.start_byte
SpanEnd(x) == IF IsGroup(x) THEN end_byte(x).val ELSE x.end_byte
Kind(x) == IF IsGroup(x) THEN type(x).val ELSE x.type
Members(x) == IF IsGroup(x) THEN children(x).val ELSE x.children

\* measure(bytes of [s, e))
Measure(s, e) == e - s
Size(x) == Measure(SpanStart(x), SpanEnd(x))

\* NodeGroup(nodes), for a list nobody else holds
NewGroup(nodes) == IF NodeGroup_init(nodes) = "" THEN [_nodes |-> nodes] ELSE None

RECURSIVE LeadingDecorators(_)
\* how many plain decorator nodes seq starts with
LeadingDecorators(seq) ==
    IF seq = <<>> THEN 0
    ELSE IF IsGroup(seq[1]) \/ Kind(seq[1]) # "decorator" THEN 0
    ELSE 1 + LeadingDecorators(Tail(seq))

RECURSIVE FuseDecorators(_)
\* every run of decorators fused with the definition that follows it
FuseDecorators(seq) ==
    IF seq = <<>> THEN <<>>
    ELSE LET k == LeadingDecorators(seq)
         IN  IF /\ k >= 1
                /\ k < Len(seq)
                /\ ~IsGroup(seq[k + 1])
                /\ Kind(seq[k + 1]) = "function_definition"
             THEN <<NewGroup(SubSeq(seq, 1, k + 1))>>
                  \o FuseDecorators(SubSeq(seq, k + 2, Len(seq)))
             ELSE <<seq[1]>> \o FuseDecorators(Tail(seq))

\* group_siblings of spec.md 4.2 under rule r
group_siblings(r, seq) == IF r = "decorators" THEN FuseDecorators(seq) ELSE seq

\* step 2: the effective child sequence of x.  The children of a syntax
\* node are grouped; a NodeGroup is itself the outcome of a grouping
\* decision and, when it is split, is the sequence of its members, each
\* assigned to windows on its own
EffectiveChildren(x) ==
    IF IsGroup(x) THEN Members(x) ELSE group_siblings(rule, Members(x))

\* a call split(x, budget) about to look at its first effective child
Frame(x) == [node |-> x, items |-> EffectiveChildren(x), i |-> 1]

Top == stack[Len(stack)]
Child == Top.items[Top.i]
HasChild == pc = "run" /\ Top.i <= Len(Top.items)

RECURSIVE Cumulative(_)
\* step 3: the cumulative measured size of the items of a window, the
\* running total of their sizes
Cumulative(items) ==
    IF items = <<>> THEN 0 ELSE Size(items[1]) + Cumulative(Tail(items))

\* step 3: adding the next child keeps the cumulative size within the budget
Fits(items) == Cumulative(items) <= budget

\* step 3b: the child, alone, exceeds the budget
Oversize_mutant(x) == Size(x) >= budget
Oversize(x) == Size(x) > budget

\* the windows with the window being filled closed, if it holds anything
Closed(ws, items) ==
    IF items = <<>> THEN ws ELSE Append(ws, [items |-> items, oversized |-> FALSE])

\* the innermost call moved on to its next child
Advanced == [stack EXCEPT ![Len(stack)].i = @ + 1]

GroupsIn(items) == {items[k] : k \in {j \in 1..Len(items) : IsGroup(items[j])}}

\* no NodeGroup object is in play
GroupIdle ==
    /\ src = <<>>
    /\ heap = [a \in {"L1"} |-> <<>>]
    /\ self = None
    /\ built = <<>>
    /\ raised = ""
    /\ obs = [op |-> "", exc |-> "", val |-> <<>>]
    /\ edits = 0

InitSplit ==
    /\ root \in Trees
    /\ budget \in 1..MaxBudget
    /\ rule \in Rules
    /\ pc = "start"
    /\ stack = <<>>
    /\ cur = <<>>
    /\ windows = <<>>
    /\ effective = {}
    /\ entered = {}
    /\ GroupIdle

\* split(root): a root without children is one window, flagged when it is
\* over the budget (step 5)
StartLeaf ==
    /\ pc = "start"
    /\ Members(root) = <<>>
    /\ windows' = <<[items |-> <<root>>, oversized |-> Oversize(root)]>>
    /\ pc' = "done"
    /\ UNCHANGED <<root, budget, rule, stack, cur, effective, entered, groupVars>>

\* split(root): group the root's children (step 2)
StartSplit ==
    /\ pc = "start"
    /\ Members(root) # <<>>
    /\ stack' = <<Frame(root)>>
    /\ effective' = GroupsIn(EffectiveChildren(root))
    /\ entered' = {root}
    /\ pc' = "run"
    /\ UNCHANGED <<root, budget, rule, cur, windows, groupVars>>

\* step 3: the child fits the window being filled
Pack ==
    /\ HasChild
    /\ Fits(Append(cur, Child))
    /\ cur' = Append(cur, Child)
    /\ stack' = Advanced
    /\ UNCHANGED <<root, budget, rule, pc, windows, effective, entered, groupVars>>

\* step 3a: the child overflows the window but fits one of its own
NewWindow ==
    /\ HasChild
    /\ ~Fits(Append(cur, Child))
    /\ ~Oversize(Child)
    /\ windows' = Closed(windows, cur)
    /\ cur' = <<Child>>
    /\ stack' = Advanced
    /\ UNCHANGED <<root, budget, rule, pc, effective, entered, groupVars>>

\* step 3b: the child alone is over the budget: split(child, budget), its
\* windows spliced in
Descend ==
    /\ HasChild
    /\ ~Fits(Append(cur, Child))
    /\ Oversize(Child)
    /\ Members(Child) # <<>>
    /\ windows' = Closed(windows, cur)
    /\ cur' = <<>>
    /\ stack' = Append(Advanced, Frame(Child))
    /\ effective' = effective \cup GroupsIn(EffectiveChildren(Child))
    /\ entered' = entered \cup {Child}
    /\ UNCHANGED <<root, budget, rule, pc, groupVars>>

\* steps 3b and 5: a child without children that is over the budget is a
\* window of its own, flagged
OversizedLeaf ==
    /\ HasChild
    /\ ~Fits(Append(cur, Child))
    /\ Oversize(Child)
    /\ Members(Child) = <<>>
    /\ windows' = Append(Closed(windows, cur), [items |-> <<Child>>, oversized |-> TRUE])
    /\ cur' = <<>>
    /\ stack' = Advanced
    /\ UNCHANGED <<root, budget, rule, pc, effective, entered, groupVars>>

\* step 4: no child is left: close the window and return to the caller
ReturnToCaller ==
    /\ pc = "run"
    /\ Top.i > Len(Top.items)
    /\ windows' = Closed(windows, cur)
    /\ cur' = <<>>
    /\ stack' = SubSeq(stack, 1, Len(stack) - 1)
    /\ pc' = IF Len(stack) = 1 THEN "done" ELSE "run"
    /\ UNCHANGED <<root, budget, rule, effective, entered, groupVars>>

NextSplit ==
    \/ StartLeaf
    \/ StartSplit
    \/ Pack
    \/ NewWindow
    \/ Descend
    \/ OversizedLeaf
    \/ ReturnToCaller

SpecSplit == InitSplit /\ [][NextSplit]_vars

----------------------------------------------------------------------------
(* Claims about NodeGroup, checked under Spec *)

\* the expression returned v
Is(r, v) == r.exc = "" /\ r.val = v

\* the list the group wraps now
Wrapped == heap[self._nodes]

\* no change was made to the list object since __init__
Fresh == self # None /\ edits = 0

\* C1: __init__ on an empty list raises at once (the assert; InvalidGroup in
\* the spec) and leaves no group object; on a list of length >= 1 it returns
\* a group.
C1_EmptyRejected ==
    /\ self # None => (Len(built) >= 1 /\ raised = "")
    /\ raised # "" => (raised = "AssertionError" /\ built = <<>> /\ self = None)

C1_Witness == raised = "AssertionError" /\ self = None /\ built = <<>>

\* C2: start_byte / start_point are those of the first element and end_byte /
\* end_point those of the last element of the sequence the group was built
\* from, whatever lies between; a group of one element has that element's span.
C2_SpanFromEnds ==
    /\ Fresh =>
         /\ Is(start_byte(Deref), built[1].start_byte)
         /\ Is(end_byte(Deref), built[Len(built)].end_byte)
         /\ Is(start_point(Deref), built[1].start_point)
         /\ Is(end_point(Deref), built[Len(built)].end_point)
         /\ Len(built) = 1 =>
              /\ Is(start_byte(Deref), built[1].start_byte)
              /\ Is(end_byte(Deref), built[1].end_byte)
    /\ (self # None /\ Wrapped # <<>>) =>
         /\ Is(start_byte(Deref), Wrapped[1].start_byte)
         /\ Is(end_byte(Deref), Wrapped[Len(Wrapped)].end_byte)
         /\ Is(start_point(Deref), Wrapped[1].start_point)
         /\ Is(end_point(Deref), Wrapped[Len(Wrapped)].end_point)
    /\ (Fresh /\ obs.op = "start_byte") => Is(obs, built[1].start_byte)
    /\ (Fresh /\ obs.op = "end_byte") => Is(obs, built[Len(built)].end_byte)
    /\ (Fresh /\ obs.op = "start_point") => Is(obs, built[1].start_point)
    /\ (Fresh /\ obs.op = "end_point") => Is(obs, built[Len(built)].end_point)

\* end_byte was read from a group of three elements with a gap before the
\* last and a middle element that ends elsewhere
C2_Witness ==
    /\ Fresh /\ obs.op = "end_byte" /\ Len(built) = 3
    /\ built[1].end_byte < built[2].start_byte
    /\ built[2].end_byte < built[3].start_byte
    /\ obs.val = built[3].end_byte
    /\ obs.val # built[1].end_byte

\* C3: the group's type is the type of the last element, not of an earlier one.
C3_TypeOfLast ==
    /\ Fresh => Is(type(Deref), built[Len(built)].type)
    /\ (self # None /\ Wrapped # <<>>) => Is(type(Deref), Wrapped[Len(Wrapped)].type)
    /\ (Fresh /\ obs.op = "type") => Is(obs, built[Len(built)].type)

\* type was read from [decorator, function_definition]
C3_Witness ==
    /\ Fresh /\ obs.op = "type" /\ Len(built) = 2
    /\ built[1].type = "decorator" /\ built[2].type = "function_definition"
    /\ obs.val = "function_definition"

\* C4: children is the sequence given to __init__: the same elements in the
\* same order, none dropped, repeated or replaced by its own children.
C4_ChildrenAreTheElements ==
    /\ Fresh => Is(children(Deref), built)
    /\ self # None => Is(children(Deref), Wrapped)
    /\ (Fresh /\ obs.op = "children") => Is(obs, built)

\* children was read from a group of three elements
C4_Witness ==
    /\ Fresh /\ obs.op = "children" /\ Len(built) = 3
    /\ Len(obs.val) = 3 /\ \A i \in 1..3 : obs.val[i] = built[i]

\* C5: after construction the group never changes: whatever is done later,
\* its start_byte, end_byte, type and children are those of the sequence it
\* was built from, and it holds at least one element.
C5_Immutable ==
    self # None =>
        /\ Is(start_byte(Deref), built[1].start_byte)
        /\ Is(end_byte(Deref), built[Len(built)].end_byte)
        /\ Is(type(Deref), built[Len(built)].type)
        /\ Is(children(Deref), built)
        /\ Len(Wrapped) >= 1

RECURSIVE SumLen(_)
\* the total length of a sequence of byte strings
SumLen(parts) == IF parts = <<>> THEN 0 ELSE Len(parts[1]) + SumLen(Tail(parts))

\* where member i's text starts in the joined text (0-based offset)
JoinOffset(list, i) == SumLen([j \in 1..(i - 1) |-> list[j].text]) + (i - 1)

\* every gap between consecutive members of list is the one byte Sep
GapsAreOneSep(list) ==
    \A i \in 1..(Len(list) - 1) :
        /\ list[i + 1].start_byte = list[i].end_byte + 1
        /\ src[list[i].end_byte + 1] = Sep

\* the source slice [start_byte, end_byte) of the group over list
SpanSlice(list) == Slice(src, list[1].start_byte, list[Len(list)].end_byte)

\* C9 (as claimed): text is the members' texts in order with one separator
\* byte between consecutive members, and it equals the source slice of the
\* group's span only when every gap is exactly that one separator byte.
C9_TextOnlyWhenGapsAreSep ==
    (self # None /\ Wrapped # <<>>) =>
        (Is(text(Deref), SpanSlice(Wrapped)) => GapsAreOneSep(Wrapped))

\* some member's text holds the separator byte
SepInMember(list) ==
    \E i \in 1..Len(list) : \E k \in 1..Len(list[i].text) : list[i].text[k] = Sep

\* some member's text is empty
EmptyMember(list) == \E i \in 1..Len(list) : list[i].text = <<>>

\* C9 (amended): for members that are syntax nodes, each with its own slice
\* of the source as text, text is the members' texts in order with one
\* separator byte between consecutive members and none before or after, of
\* length the sum of the member lengths plus n-1; it equals the source slice
\* whenever every gap is that one separator byte, never when the gaps do not
\* add up to n-1 bytes, and, for at most two members or for members whose
\* texts are not empty and hold no separator byte, only when every gap is
\* that one separator byte.
C9_TextIsJoin ==
    (self # None /\ Wrapped # <<>>) =>
        LET L == Wrapped
            n == Len(L)
            r == text(Deref)
        IN  /\ r.exc = ""
            /\ Len(r.val) = SumLen([i \in 1..n |-> L[i].text]) + (n - 1)
            /\ \A i \in 1..n : \A k \in 1..Len(L[i].text) :
                   r.val[JoinOffset(L, i) + k] = L[i].text[k]
            /\ \A i \in 2..n : r.val[JoinOffset(L, i)] = Sep
            /\ GapsAreOneSep(L) => r.val = SpanSlice(L)
            /\ r.val = SpanSlice(L) =>
                   L[n].end_byte - L[1].start_byte
                       = SumLen([i \in 1..n |-> L[i].text]) + (n - 1)
            /\ ((n <= 2 \/ (~SepInMember(L) /\ ~EmptyMember(L))) /\ r.val = SpanSlice(L))
                   => GapsAreOneSep(L)

\* text was read from three members, none holding a separator byte and the
\* middle one empty, whose gaps are not one byte each, and still equals the
\* source slice
C9_Witness ==
    /\ Fresh /\ obs.op = "text" /\ Len(built) = 3
    /\ obs.val = SpanSlice(built)
    /\ ~GapsAreOneSep(built)
    /\ ~SepInMember(built)
    /\ built[2].text = <<>>

----------------------------------------------------------------------------
(* Claims about split, checked under SpecSplit *)

\* the first byte of x and the byte after its last, read off its elements
TrueStart(x) == IF IsGroup(x) THEN x._nodes[1].start_byte ELSE x.start_byte
TrueEnd(x) == IF IsGroup(x) THEN x._nodes[Len(x._nodes)].end_byte ELSE x.end_byte
TrueSize(x) == TrueEnd(x) - TrueStart(x)

\* the windows emitted, and the one being filled if it holds anything
Pending == IF cur = <<>> THEN <<>> ELSE <<[items |-> cur, oversized |-> FALSE]>>
AllWindows == windows \o Pending

\* the places where a window starts or ends
Boundaries ==
    {TrueStart(AllWindows[k].items[1]) : k \in 1..Len(AllWindows)} \cup
    {TrueEnd(AllWindows[k].items[Len(AllWindows[k].items)]) : k \in 1..Len(AllWindows)}

CutInside(g) == \E b \in Boundaries : TrueStart(g) < b /\ b < TrueEnd(g)

\* the windows that hold x as one of their items
Holding(x) ==
    {k \in 1..Len(AllWindows) :
        \E j \in 1..Len(AllWindows[k].items) : AllWindows[k].items[j] = x}

\* C6: a NodeGroup of an effective child sequence whose span is within the
\* budget is never entered and never cut: no window starts or ends strictly
\* inside it, and once split is done it is an item of exactly one window.  A
\* window starts or ends strictly inside a NodeGroup only if that group alone
\* is over the budget and split recursed into it; that recursion ranges over
\* the group's members, the group is then an item of no window, and once
\* split is done each of its members is an item of a window or was split in
\* its turn.
C6_Atomicity ==
    /\ \A g \in effective :
           TrueSize(g) <= budget =>
               /\ ~CutInside(g)
               /\ g \notin entered
               /\ Cardinality(Holding(g)) <= 1
               /\ pc = "done" => Cardinality(Holding(g)) = 1
    /\ \A g \in effective :
           CutInside(g) => (TrueSize(g) > budget /\ g \in entered)
    /\ \A k \in 1..Len(stack) :
           IsGroup(stack[k].node) => stack[k].items = stack[k].node._nodes
    /\ \A g \in effective :
           g \in entered =>
               /\ TrueSize(g) > budget
               /\ Holding(g) = {}
               /\ pc = "done" =>
                      \A m \in 1..Len(g._nodes) :
                          Holding(g._nodes[m]) # {} \/ g._nodes[m] \in entered

\* split is done; one group of two members fits the budget and is whole in
\* one window; another is over the budget, was split into its members, and
\* a window ends strictly inside its span
C6_Witness ==
    /\ pc = "done"
    /\ \E g \in effective :
           /\ Len(g._nodes) = 2
           /\ 0 < TrueSize(g) /\ TrueSize(g) <= budget
           /\ Cardinality(Holding(g)) = 1
    /\ \E g \in effective :
           /\ TrueSize(g) > budget
           /\ g \in entered
           /\ CutInside(g)
           /\ Holding(g) = {}

====
